---- MODULE Spec2Model ----
(***************************************************************************)
(* A model of .mcp/go_dev_tools.py: the module registry, the staged-change *)
(* mapper, the package-to-module resolver, and the lint / fix / coverage   *)
(* operations with their external subprocesses.                            *)
(*                                                                         *)
(* Python strings are sequences of one-character strings, so that          *)
(* str.replace, str.split, str.count and sorted() act on characters as in  *)
(* the source.  A string that holds JSON text is the record                *)
(* [kind |-> "json", value |-> v] of the value it encodes; any other text  *)
(* is [kind |-> "text", ...].  A Python call either returns a value,       *)
(* Ret(v), or raises, Raise(e).                                            *)
(***************************************************************************)
EXTENDS Integers, Sequences, FiniteSets, TLC

(***************************************************************************)
(* Bounds of the model.                                                    *)
(***************************************************************************)
\* longest package string handed to get_module_from_pkg
MaxPkgLen == 5
\* most segments of a staged path
MaxPathLen == 3
\* most entries of the staged-change list
MaxChanged == 2
\* most issues in the lint tool's issue list
MaxIssues == 2
\* the lines of a coverage text ahead of its last line
MaxRecords == 3
\* most files in a low-coverage list
MaxLowFiles == 4

(***************************************************************************)
(* Python values.                                                          *)
(***************************************************************************)
None == "None"

Ret(v) == [raised |-> FALSE, value |-> v]

Raise(e) == [raised |-> TRUE, exc |-> e]

\* dict.get(key, default)
Get(d, k, default) == IF k \in DOMAIN d THEN d[k] ELSE default

\* json.dumps(value): the JSON text of value
JsonDumps(v) == [kind |-> "json", value |-> v]

\* json.loads(text): the value, or JSONDecodeError when text is no JSON
JsonLoads(s) == IF s.kind = "json" THEN Ret(s.value) ELSE Raise("JSONDecodeError")

\* a str result that is plain text (a module id)
Text(s) == [kind |-> "text", text |-> s]

(***************************************************************************)
(* Strings: characters, str.startswith, str.replace, str.split, "/".join,  *)
(* str.count and the order sorted() uses.                                  *)
(***************************************************************************)
Chars == {"a", "g", "/"}

\* code-point order of the characters: "/" < "a" < "g"
CharOrd(c) == CASE c = "/" -> 47 [] c = "a" -> 97 [] c = "g" -> 103 [] OTHER -> 108

StrsUpTo(n) == UNION {[1..k -> Chars] : k \in 0..n}

StartsWith(s, p) == Len(s) >= Len(p) /\ SubSeq(s, 1, Len(p)) = p

RECURSIVE Replace(_, _)
\* s.replace(old, ""): every non-overlapping occurrence of old, left to right
Replace(s, old) ==
    IF Len(s) < Len(old) THEN s
    ELSE IF StartsWith(s, old) THEN Replace(SubSeq(s, Len(old) + 1, Len(s)), old)
    ELSE <<s[1]>> \o Replace(Tail(s), old)

RECURSIVE Split(_)
\* s.split("/"): "" gives [""], "a/" gives ["a", ""]
Split(s) ==
    IF \A i \in 1..Len(s) : s[i] # "/" THEN <<s>>
    ELSE LET i == CHOOSE j \in 1..Len(s) : s[j] = "/" /\ \A k \in 1..(j - 1) : s[k] # "/"
         IN <<SubSeq(s, 1, i - 1)>> \o Split(SubSeq(s, i + 1, Len(s)))

RECURSIVE Join(_)
\* "/".join(parts)
Join(parts) ==
    IF Len(parts) = 0 THEN <<>>
    ELSE IF Len(parts) = 1 THEN parts[1]
    ELSE parts[1] \o <<"/">> \o Join(Tail(parts))

\* s.count("/")
CountSlash(s) == Cardinality({i \in 1..Len(s) : s[i] = "/"})

RECURSIVE StrLess(_, _)
\* s < t for Python strings
StrLess(s, t) ==
    IF Len(t) = 0 THEN FALSE
    ELSE IF Len(s) = 0 THEN TRUE
    ELSE IF s[1] # t[1] THEN CharOrd(s[1]) < CharOrd(t[1])
    ELSE StrLess(Tail(s), Tail(t))

RECURSIVE Sorted(_)
\* sorted(list(set)): ascending
Sorted(S) ==
    IF S = {} THEN <<>>
    ELSE LET m == CHOOSE x \in S : \A y \in S \ {x} : StrLess(x, y)
         IN <<m>> \o Sorted(S \ {m})

SeqToSet(q) == {q[i] : i \in 1..Len(q)}

SelectDepth(q, d) == SelectSeq(q, LAMBDA m : CountSlash(m) = d)

RECURSIVE DepthLevels(_, _)
DepthLevels(q, d) ==
    IF d < 0 THEN <<>> ELSE SelectDepth(q, d) \o DepthLevels(q, d - 1)

\* sorted(q, key=lambda p: p.count('/'), reverse=True): a stable sort, so
\* entries of equal depth keep the order they have in q
SortedByDepthDesc(q) ==
    LET depths == {CountSlash(q[i]) : i \in 1..Len(q)}
        top == IF depths = {} THEN 0 ELSE CHOOSE d \in depths : \A e \in depths : e <= d
    IN DepthLevels(q, top)

(***************************************************************************)
(* The project tree and the module registry.                               *)
(***************************************************************************)
\* the directories under PROJECT_ROOT that may hold a go.mod
ModuleUniverse == {<<"a">>, <<"a", "/", "a">>, <<"g", "/", "a">>}

VARIABLES
    go_mod_dirs,      \* directories (relative to PROJECT_ROOT) holding a go.mod
    root_readable,    \* whether PROJECT_ROOT can be listed
    coverage_out,     \* the coverage.out files there are
    op,               \* the public operation called, "idle" between calls
    arg,              \* its arguments
    env,              \* what its collaborators (git, tools, filesystem) answer
    pc,               \* position inside _execute_coverage_analysis
    ret               \* what the operation returned or raised

vars == <<go_mod_dirs, root_readable, coverage_out, op, arg, env, pc, ret>>

world == <<go_mod_dirs, root_readable>>

\* _get_available_modules(): PROJECT_ROOT.iterdir() raises on an unreadable
\* root; otherwise the direct and the nested go.mod directories, sorted
GetAvailableModules ==
    IF ~root_readable THEN Raise("PermissionError")
    ELSE LET direct == {d \in go_mod_dirs : CountSlash(d) = 0}
             nested == go_mod_dirs
         IN Ret(Sorted(direct \cup nested))

\* find_modules(): no handler around _get_available_modules()
FindModules == GetAvailableModules

Init ==
    /\ go_mod_dirs \in SUBSET ModuleUniverse
    /\ root_readable \in BOOLEAN
    /\ coverage_out = {}
    /\ op = "idle"
    /\ arg = None
    /\ env = None
    /\ pc = "idle"
    /\ ret = None

find_modules ==
    /\ op = "idle"
    /\ op' = "find_modules"
    /\ ret' = FindModules
    /\ UNCHANGED <<world, coverage_out, arg, env, pc>>

\* the caller takes the result; the next call starts from the same tree
Return ==
    /\ op # "idle"
    /\ pc \in {"idle", "done"}
    /\ op' = "idle"
    /\ arg' = None
    /\ env' = None
    /\ pc' = "idle"
    /\ ret' = None
    /\ UNCHANGED <<world, coverage_out>>

(***************************************************************************)
(* find_staged_modules.                                                    *)
(***************************************************************************)
PathSegs == {<<"a">>, <<"g">>}

\* a staged symbolic link that points to itself: Path.resolve() raises
\* RuntimeError("Symlink loop ...") on it (pathlib before Python 3.13)
LoopLink == <<"l">>

\* the lines "git diff --name-only --cached" can print: paths relative to
\* the root, the empty line, the looping link
StagedEntries ==
    {Join(segs) : segs \in UNION {[1..k -> PathSegs] : k \in 0..MaxPathLen}}
        \cup {LoopLink}

ChangedLists == UNION {[1..k -> StagedEntries] : k \in 0..MaxChanged}

\* what subprocess.run(git_cmd, ...) does: it raises (git missing, timeout)
\* or git exits with a return code and its output lines
GitOutcomes ==
    {[kind |-> "raises", exc |-> e] : e \in {"FileNotFoundError", "TimeoutExpired"}}
        \cup {[kind |-> "exited", returncode |-> 1, stdout |-> <<>>]}
        \cup {[kind |-> "exited", returncode |-> 0, stdout |-> l] : l \in ChangedLists}

RECURSIVE StripLines(_)
\* result.stdout.strip().split('\n'): no leading or trailing empty line;
\* <<>> stands for the empty output
StripLines(lines) ==
    IF lines = <<>> THEN <<>>
    ELSE IF Head(lines) = <<>> THEN StripLines(Tail(lines))
    ELSE IF lines[Len(lines)] = <<>> THEN StripLines(SubSeq(lines, 1, Len(lines) - 1))
    ELSE lines

IsPrefix(p, q) == Len(p) <= Len(q) /\ SubSeq(q, 1, Len(p)) = p

\* (PROJECT_ROOT / file_path_str).resolve(): the segments below the root
Resolve(file_path_str) ==
    IF file_path_str = LoopLink THEN Raise("RuntimeError")
    ELSE Ret(Split(file_path_str))

\* abs_file_path.is_relative_to((PROJECT_ROOT / module_name).resolve())
IsRelativeTo(abs_file_path, module_name) == IsPrefix(Split(module_name), abs_file_path)

\* the inner loop: the first module of sorted_modules holding the path
FirstModuleOf(abs_file_path, sorted_modules) ==
    LET hits == {i \in 1..Len(sorted_modules) :
                    IsRelativeTo(abs_file_path, sorted_modules[i])}
    IN IF hits = {} THEN {}
       ELSE {sorted_modules[CHOOSE i \in hits : \A j \in hits : i <= j]}

RECURSIVE MapChanged(_, _, _)
\* the loop over changed_files; resolve() stands outside the inner try, so
\* what it raises leaves the loop
MapChanged(changed_files, sorted_modules, changed_modules) ==
    IF changed_files = <<>> THEN Ret(changed_modules)
    ELSE IF Head(changed_files) = <<>>
    THEN MapChanged(Tail(changed_files), sorted_modules, changed_modules)
    ELSE LET abs_file_path == Resolve(Head(changed_files))
         IN IF abs_file_path.raised THEN abs_file_path
            ELSE MapChanged(Tail(changed_files), sorted_modules,
                     changed_modules \cup FirstModuleOf(abs_file_path.value, sorted_modules))

\* find_staged_modules(): every exception ends in "return []"
FindStagedModules(git) ==
    IF git.kind = "raises" THEN Ret(<<>>)
    ELSE IF git.returncode # 0 THEN Ret(<<>>)
    ELSE LET changed_files == StripLines(git.stdout)
         IN IF changed_files = <<>> THEN Ret(<<>>)
            ELSE LET all_modules == GetAvailableModules
                 IN IF all_modules.raised THEN Ret(<<>>)
                    ELSE LET r == MapChanged(changed_files,
                                      SortedByDepthDesc(all_modules.value), {})
                         IN IF r.raised THEN Ret(<<>>) ELSE Ret(Sorted(r.value))

find_staged_modules ==
    /\ op = "idle"
    /\ \E git \in GitOutcomes :
        /\ env' = [git |-> git]
        /\ ret' = FindStagedModules(git)
    /\ op' = "find_staged_modules"
    /\ UNCHANGED <<world, coverage_out, arg, pc>>

(***************************************************************************)
(* get_module_from_pkg.                                                    *)
(***************************************************************************)
\* "github.com/telekom/controlplane/": the organisation root, written "g",
\* and its closing slash
OrgPrefix == <<"g", "/">>

Packages == StrsUpTo(MaxPkgLen)

\* paths below the root, besides the module directories, that may exist
TreeUniverse == {<<"a", "/", "g">>, <<"a", "/", "a", "/", "g">>}

NonEmptySegs(s) == SelectSeq(Split(s), LAMBDA x : x # <<>>)

\* every path that exists below the root: the directories of go_mod_dirs and
\* of tree with their parents, and the root itself
ExistingPaths(tree) ==
    {<<>>} \cup UNION {{SubSeq(NonEmptySegs(d), 1, k) : k \in 0..Len(NonEmptySegs(d))} :
                          d \in go_mod_dirs \cup tree}

\* (module_dir / potential_path).exists(): pathlib drops empty segments, and
\* an absolute potential_path replaces module_dir (then only "/" exists)
ExistsUnder(module, potential_path, tree) ==
    IF potential_path # <<>> /\ potential_path[1] = "/"
    THEN NonEmptySegs(potential_path) = <<>>
    ELSE NonEmptySegs(module) \o NonEmptySegs(potential_path) \in ExistingPaths(tree)

\* a variant of the report that leaves the known modules out
NotFoundReport_NoList(pkg, modules) ==
    JsonDumps([error |-> [msg |-> "Package not found in any module", pkg |-> pkg],
               available_modules |-> <<>>])

\* the report of lines 277-280
NotFoundReport(pkg, modules) ==
    JsonDumps([error |-> [msg |-> "Package not found in any module", pkg |-> pkg],
               available_modules |-> modules])

\* lines 259-266: progressively longer joined prefixes of the remainder
ProgressiveMatch(pkg, modules) ==
    IF ~StartsWith(pkg, OrgPrefix) THEN {}
    ELSE LET pkg_parts == Split(Replace(pkg, OrgPrefix))
             hits == {i \in 1..Len(pkg_parts) :
                         Join(SubSeq(pkg_parts, 1, i)) \in SeqToSet(modules)}
         IN IF hits = {} THEN {}
            ELSE {Join(SubSeq(pkg_parts, 1, CHOOSE i \in hits : \A j \in hits : i <= j))}

\* lines 269-275: the first module, in registry order, holding the package
FilesystemMatch(pkg, modules, tree) ==
    LET hits == {i \in 1..Len(modules) :
                    /\ ExistsUnder(modules[i], <<>>, tree)
                    /\ \/ ExistsUnder(modules[i], pkg, tree)
                       \/ ExistsUnder(modules[i], Replace(pkg, OrgPrefix), tree)}
    IN IF hits = {} THEN {}
       ELSE {modules[CHOOSE i \in hits : \A j \in hits : i <= j]}

GetModuleFromPkg(pkg, tree) ==
    LET modules == GetAvailableModules
    IN IF modules.raised
       THEN Ret(JsonDumps([error |-> [msg |-> "Failed to determine module for package",
                                      pkg |-> pkg, exc |-> modules.exc]]))
       ELSE IF pkg \in SeqToSet(modules.value) THEN Ret(Text(pkg))
       ELSE LET progressive == ProgressiveMatch(pkg, modules.value)
                filesystem == FilesystemMatch(pkg, modules.value, tree)
            IN IF progressive # {} THEN Ret(Text(CHOOSE m \in progressive : TRUE))
               ELSE IF filesystem # {} THEN Ret(Text(CHOOSE m \in filesystem : TRUE))
               ELSE Ret(NotFoundReport(pkg, modules.value))

get_module_from_pkg ==
    /\ op = "idle"
    /\ \E pkg \in Packages, tree \in SUBSET TreeUniverse :
        /\ arg' = [pkg |-> pkg]
        /\ env' = [tree |-> tree]
        /\ ret' = GetModuleFromPkg(pkg, tree)
    /\ op' = "get_module_from_pkg"
    /\ UNCHANGED <<world, coverage_out, pc>>

NextRegistry == find_modules \/ find_staged_modules \/ Return

SpecRegistry == Init /\ [][NextRegistry]_vars

NextPkg == get_module_from_pkg \/ Return

SpecPkg == Init /\ [][NextPkg]_vars

(***************************************************************************)
(* The module argument of lint, fix and analyze_code_coverage.             *)
(***************************************************************************)
ModuleArgs == ModuleUniverse

\* module_dir.exists(): a go.mod directory or a parent of one
ModuleDirExists(module) == NonEmptySegs(module) \in ExistingPaths({})

\* (module_dir / "go.mod").exists()
GoModExists(module) == module \in go_mod_dirs

\* the report of a public operation's own "except Exception as e"
FailedReport(what, module, exc) ==
    JsonDumps([error |-> [msg |-> what, module |-> module, exc |-> exc]])

\* the two checks lint, fix and analyze_code_coverage make before running a
\* tool: {} when both pass, else the report returned instead
PreCheck(what, module) ==
    IF ~ModuleDirExists(module)
    THEN LET available == GetAvailableModules
         IN IF available.raised THEN {FailedReport(what, module, available.exc)}
            ELSE {JsonDumps([error |-> [msg |-> "Module directory not found in project root",
                                        module |-> module],
                             available_modules |-> available.value])}
    ELSE IF ~GoModExists(module)
    THEN {JsonDumps([error |-> [msg |-> "No go.mod found in module directory",
                                module |-> module],
                     path |-> module])}
    ELSE {}

(***************************************************************************)
(* The lint tool's output.                                                 *)
(***************************************************************************)
EmptyStr == Text(<<>>)

\* a literal message of the source
Lit(m) == [kind |-> "literal", lit |-> m]

\* "if s:" for a str
NonEmpty(s) == s # EmptyStr

\* the JSON values a tool can print: an array, or an object (a dict), given
\* by its entries and by the keys whose value is null
JObjectWithNull(d, nulls) == [type |-> "object", dict |-> d, nulls |-> nulls]

JObject(d) == JObjectWithNull(d, {})

JArray(q) == [type |-> "array", items |-> q]

\* one issue record of golangci-lint; Severity and FromLinter may be absent
RawIssues ==
    {[Text |-> <<"m">>] @@ sev @@ lin :
        sev \in {<<>>} \cup {[Severity |-> x] : x \in {"error", "warning"}},
        lin \in {<<>>} \cup {[FromLinter |-> x] : x \in {"gofmt", "govet"}}}

IssueLists == UNION {[1..k -> RawIssues] : k \in 0..MaxIssues}

\* what golangci-lint can leave on stdout: nothing, text that is no JSON, a
\* JSON array, an object without "Issues", "Issues": null, an issue list
LintStdouts ==
    {EmptyStr, Text(<<"x">>), JsonDumps(JArray(<<>>)), JsonDumps(JObject(<<>>)),
     JsonDumps(JObjectWithNull(<<>>, {"Issues"}))}
        \cup {JsonDumps(JObject([Issues |-> q])) : q \in IssueLists}

\* a subprocess the operation did not get to start
NotRun == [kind |-> "not_run"]

\* what subprocess.run(cmd, ..., timeout=300) does for golangci-lint
LintRuns ==
    {[kind |-> "raises", exc |-> e] :
        e \in {"TimeoutExpired", "FileNotFoundError", "PermissionError"}}
        \cup {[kind |-> "exited", returncode |-> 0, stdout |-> o, stderr |-> EmptyStr] :
                 o \in LintStdouts}
        \cup {[kind |-> "exited", returncode |-> 1, stdout |-> o, stderr |-> e] :
                 o \in LintStdouts, e \in {EmptyStr, Text(<<"e">>)}}

(***************************************************************************)
(* _format_lint_results.                                                   *)
(***************************************************************************)
\* breakdown[key] = breakdown.get(key, 0) + 1
Incremented(breakdown, key) ==
    [k \in DOMAIN breakdown \cup {key} |->
        IF k = key THEN Get(breakdown, key, 0) + 1 ELSE breakdown[k]]

RECURSIVE Breakdown(_, _, _)
\* the counting loop over issues for one field
Breakdown(issues, field, acc) ==
    IF issues = <<>> THEN acc
    ELSE Breakdown(Tail(issues), field,
                   Incremented(acc, Get(Head(issues), field, "unknown")))

\* lines 916-924
FormattedIssue(issue) ==
    [file |-> Get(Get(issue, "Pos", <<>>), "Filename", "unknown"),
     line |-> Get(Get(issue, "Pos", <<>>), "Line", 0),
     column |-> Get(Get(issue, "Pos", <<>>), "Column", 0),
     severity |-> Get(issue, "Severity", "unknown"),
     message |-> Get(issue, "Text", <<>>),
     linter |-> Get(issue, "FromLinter", "unknown"),
     rule |-> Get(issue, "Rule", <<>>)]

\* a variant that emits the issues last to first
FormattedIssues_Reversed(issues) ==
    [i \in 1..Len(issues) |-> FormattedIssue(issues[Len(issues) + 1 - i])]

\* formatted_issues: one entry per issue, appended in order
FormattedIssues(issues) == [i \in 1..Len(issues) |-> FormattedIssue(issues[i])]

\* a variant that never reports success
LintStatus_AlwaysIssues(issues) == "completed_with_issues"

\* "completed_with_issues" if issues else "success"
LintStatus(issues) == IF issues # <<>> THEN "completed_with_issues" ELSE "success"

\* _format_lint_results(module_name, lint_data): lint_data.get raises on a
\* value that is no dict, the loop raises on "Issues": null
FormatLintResults(module_name, lint_data) ==
    IF lint_data.type # "object" THEN Raise("AttributeError")
    ELSE IF "Issues" \in lint_data.nulls THEN Raise("TypeError")
    ELSE LET issues == Get(lint_data.dict, "Issues", <<>>)
         IN Ret(JsonDumps(
                     [module |-> module_name,
                      status |-> LintStatus(issues),
                      issues |-> FormattedIssues(issues),
                      summary |-> [total_issues |-> Len(issues),
                                   severity_breakdown |-> Breakdown(issues, "Severity", <<>>),
                                   linter_breakdown |-> Breakdown(issues, "FromLinter", <<>>)]]))

(***************************************************************************)
(* _execute_golangci_lint and lint.                                        *)
(***************************************************************************)
\* lines 882-887
LintTimeoutReport(module_name) ==
    JsonDumps([module |-> module_name, status |-> "timeout",
               error_message |-> Lit("Linting process timed out after 5 minutes")])

\* _execute_golangci_lint(module_dir, module_name): only TimeoutExpired and
\* FileNotFoundError are handled here
ExecuteGolangciLint(module_name, run) ==
    IF run.kind = "raises"
    THEN IF run.exc = "TimeoutExpired" THEN Ret(LintTimeoutReport(module_name))
         ELSE IF run.exc = "FileNotFoundError"
         THEN Ret(JsonDumps([module |-> module_name, status |-> "error",
                             error_message |-> Lit("golangci-lint not found")]))
         ELSE Raise(run.exc)
    ELSE IF run.returncode = 0
    THEN Ret(JsonDumps([module |-> module_name, status |-> "success", issues |-> <<>>,
                        summary |-> [total_issues |-> 0, severity_breakdown |-> <<>>,
                                     linter_breakdown |-> <<>>]]))
    ELSE IF NonEmpty(run.stdout)
    THEN LET lint_data == JsonLoads(run.stdout)
         IN IF lint_data.raised
            THEN Ret(JsonDumps([module |-> module_name, status |-> "completed_with_issues",
                                raw_output |-> run.stdout,
                                stderr |-> run.stderr]))
            ELSE FormatLintResults(module_name, lint_data.value)
    ELSE Ret(JsonDumps([module |-> module_name, status |-> "error",
                        error_message |-> IF NonEmpty(run.stderr) THEN run.stderr
                                          ELSE Lit("Unknown error occurred"),
                        return_code |-> run.returncode]))

\* lint(module)
Lint(module, run) ==
    IF PreCheck("Failed to lint module", module) # {}
    THEN Ret(CHOOSE r \in PreCheck("Failed to lint module", module) : TRUE)
    ELSE LET r == ExecuteGolangciLint(module, run)
         IN IF r.raised THEN Ret(FailedReport("Failed to lint module", module, r.exc))
            ELSE r

lint ==
    /\ op = "idle"
    /\ \E module \in ModuleArgs, run \in LintRuns :
        LET started == PreCheck("Failed to lint module", module) = {}
        IN /\ arg' = [module |-> module]
           /\ env' = [lint_run |-> IF started THEN run ELSE NotRun]
           /\ ret' = Lint(module, run)
    /\ op' = "lint"
    /\ UNCHANGED <<world, coverage_out, pc>>

NextLint == lint \/ Return

SpecLint == Init /\ [][NextLint]_vars

(***************************************************************************)
(* _execute_golangci_fix and fix.                                          *)
(***************************************************************************)
\* what subprocess.run(cmd, ..., timeout=300) does for golangci-lint --fix
FixRuns ==
    {[kind |-> "raises", exc |-> e] : e \in {"TimeoutExpired", "FileNotFoundError"}}
        \cup {[kind |-> "exited", returncode |-> rc, stdout |-> EmptyStr,
               stderr |-> EmptyStr] : rc \in {0, 1}}

AutoFixable == {"gofmt", "goimports", "revive"}

\* the issues of auto-fixable linters in the parsed lint report
FixableIssues(current_data) ==
    IF "issues" \in DOMAIN current_data
    THEN SelectSeq(current_data.issues, LAMBDA issue : Get(issue, "linter", <<>>) \in AutoFixable)
    ELSE <<>>

RECURSIVE FirstSeen(_, _)
\* fixable_types: each linter once, in the order it first appears
FirstSeen(issues, seen) ==
    IF issues = <<>> THEN seen
    ELSE IF Head(issues).linter \in SeqToSet(seen) THEN FirstSeen(Tail(issues), seen)
    ELSE FirstSeen(Tail(issues), Append(seen, Head(issues).linter))

\* _extract_summary_from_lint_result(lint_result)
ExtractSummaryFromLintResult(lint_result) ==
    LET data == JsonLoads(lint_result)
    IN IF data.raised THEN [error |-> "Could not parse lint results"]
       ELSE IF "summary" \in DOMAIN data.value THEN data.value.summary
       ELSE [message |-> "No issues found"]

\* the report of "except Exception as e" in _execute_golangci_fix
FixErrorReport(module_name, exc) ==
    JsonDumps([module |-> module_name, status |-> "error", error_message |-> exc])

\* lines 730-764: preview mode
FixPreview(module_name, lint_run) ==
    LET current_issues_result == ExecuteGolangciLint(module_name, lint_run)
    IN IF current_issues_result.raised
       THEN Ret(FixErrorReport(module_name, current_issues_result.exc))
       ELSE LET current_data == JsonLoads(current_issues_result.value)
            IN IF current_data.raised
               THEN Ret(JsonDumps([module |-> module_name, preview_mode |-> TRUE,
                                   error |-> "Could not parse current lint results",
                                   raw_result |-> current_issues_result.value]))
               ELSE Ret(JsonDumps(
                   [module |-> module_name,
                    preview_mode |-> TRUE,
                    current_total_issues |->
                        Get(Get(current_data.value, "summary", <<>>), "total_issues", 0),
                    estimated_fixable_issues |-> Len(FixableIssues(current_data.value)),
                    fixable_linters |-> FirstSeen(FixableIssues(current_data.value), <<>>)]))

\* lines 766-797: apply mode, the fix command and then the lint of what remains
FixApply(module_name, fix_run, lint_run) ==
    IF fix_run.kind = "raises"
    THEN IF fix_run.exc = "TimeoutExpired"
         THEN Ret(JsonDumps([module |-> module_name, status |-> "timeout",
                             error_message |-> Lit("Fix process timed out after 5 minutes")]))
         ELSE Ret(FixErrorReport(module_name, fix_run.exc))
    ELSE LET remaining_issues_result == ExecuteGolangciLint(module_name, lint_run)
         IN IF remaining_issues_result.raised
            THEN Ret(FixErrorReport(module_name, remaining_issues_result.exc))
            ELSE Ret(JsonDumps(
                [module |-> module_name,
                 status |-> "fix_completed",
                 fix_result |-> [return_code |-> fix_run.returncode,
                                 stdout |-> fix_run.stdout,
                                 stderr |-> fix_run.stderr],
                 remaining_issues_summary |->
                     ExtractSummaryFromLintResult(remaining_issues_result.value)]))

\* _execute_golangci_fix(module_dir, module_name, preview)
ExecuteGolangciFix(module_name, preview, fix_run, lint_run) ==
    IF preview THEN FixPreview(module_name, lint_run)
    ELSE FixApply(module_name, fix_run, lint_run)

\* fix(module, preview)
Fix(module, preview, fix_run, lint_run) ==
    IF PreCheck("Failed to fix module", module) # {}
    THEN Ret(CHOOSE r \in PreCheck("Failed to fix module", module) : TRUE)
    ELSE LET r == ExecuteGolangciFix(module, preview, fix_run, lint_run)
         IN IF r.raised THEN Ret(FailedReport("Failed to fix module", module, r.exc))
            ELSE r

fix ==
    /\ op = "idle"
    /\ \E module \in ModuleArgs, preview \in BOOLEAN, fix_run \in FixRuns, lint_run \in LintRuns :
        LET started == PreCheck("Failed to fix module", module) = {}
            fixed == started /\ ~preview
            linted == started /\ (preview \/ fix_run.kind = "exited")
        IN /\ arg' = [module |-> module, preview |-> preview]
           /\ env' = [fix_run |-> IF fixed THEN fix_run ELSE NotRun,
                      lint_run |-> IF linted THEN lint_run ELSE NotRun]
           /\ ret' = Fix(module, preview, fix_run, lint_run)
    /\ op' = "fix"
    /\ UNCHANGED <<world, coverage_out, pc>>

NextFix == fix \/ Return

SpecFix == Init /\ [][NextFix]_vars

(***************************************************************************)
(* The text of "go tool cover -func": a sequence of lines, each line a     *)
(* sequence of chunks (a word, a number, or one of the characters ":",     *)
(* tab, space, "%").  Percentages are kept in hundredths.                  *)
(***************************************************************************)
Whitespace == {" ", "\t"}

\* the chunks str.isdigit accepts
DigitChunks == {"10"}

\* the chunks float() accepts, with their value in hundredths
NumVal(c) ==
    CASE c = "0.0" -> 0
      [] c = "10" -> 1000
      [] c = "33.3" -> 3330
      [] c = "49.99" -> 4999
      [] c = "50.0" -> 5000
      [] c = "69.99" -> 6999
      [] c = "70.0" -> 7000
      [] c = "79.99" -> 7999
      [] c = "80.0" -> 8000
      [] c = "100.0" -> 10000

NumericChunks ==
    {"0.0", "10", "33.3", "49.99", "50.0", "69.99", "70.0", "79.99", "80.0", "100.0"}

\* str.lower, chunk by chunk
Lower(c) == IF c = "Total" THEN "total" ELSE IF c = "Foo" THEN "foo" ELSE c

RECURSIVE LStrip(_)
LStrip(s) == IF s # <<>> /\ Head(s) \in Whitespace THEN LStrip(Tail(s)) ELSE s

RECURSIVE RStrip(_)
RStrip(s) ==
    IF s # <<>> /\ s[Len(s)] \in Whitespace THEN RStrip(SubSeq(s, 1, Len(s) - 1)) ELSE s

\* str.strip()
Strip(s) == LStrip(RStrip(s))

\* a line str.strip() removes whole
Blank(line) == \A i \in 1..Len(line) : line[i] \in Whitespace

RECURSIVE DropBlankHead(_)
DropBlankHead(text) ==
    IF text # <<>> /\ Blank(Head(text)) THEN DropBlankHead(Tail(text)) ELSE text

RECURSIVE DropBlankTail(_)
DropBlankTail(text) ==
    IF text # <<>> /\ Blank(text[Len(text)])
    THEN DropBlankTail(SubSeq(text, 1, Len(text) - 1)) ELSE text

\* coverage_output.strip().split('\n')
SplitLines(coverage_output) ==
    LET kept == DropBlankTail(DropBlankHead(coverage_output))
    IN IF kept = <<>> THEN << <<>> >>
       ELSE [i \in 1..Len(kept) |->
                LET l == IF i = 1 THEN LStrip(kept[i]) ELSE kept[i]
                IN IF i = Len(kept) THEN RStrip(l) ELSE l]

RECURSIVE SplitAt(_, _)
\* s.split(sep)
SplitAt(s, sep) ==
    IF \A i \in 1..Len(s) : s[i] # sep THEN <<s>>
    ELSE LET i == CHOOSE j \in 1..Len(s) :
                      s[j] = sep /\ \A k \in 1..(j - 1) : s[k] # sep
         IN <<SubSeq(s, 1, i - 1)>> \o SplitAt(SubSeq(s, i + 1, Len(s)), sep)

RECURSIVE JoinWith(_, _)
\* sep.join(parts)
JoinWith(parts, sep) ==
    IF parts = <<>> THEN <<>>
    ELSE IF Len(parts) = 1 THEN parts[1]
    ELSE parts[1] \o <<sep>> \o JoinWith(Tail(parts), sep)

RECURSIVE Tokens(_)
\* s.split(): the runs between whitespace
Tokens(s) ==
    LET t == LStrip(s)
    IN IF t = <<>> THEN <<>>
       ELSE IF \A i \in 1..Len(t) : t[i] \notin Whitespace THEN <<t>>
       ELSE LET i == CHOOSE j \in 1..Len(t) :
                         t[j] \in Whitespace /\ \A k \in 1..(j - 1) : t[k] \notin Whitespace
            IN <<SubSeq(t, 1, i - 1)>> \o Tokens(SubSeq(t, i + 1, Len(t)))

\* s.rfind(':'), counted from 1; 0 when there is none
RFindColon(s) ==
    IF \A i \in 1..Len(s) : s[i] # ":" THEN 0
    ELSE CHOOSE i \in 1..Len(s) : s[i] = ":" /\ \A k \in (i + 1)..Len(s) : s[k] # ":"

\* s.isdigit()
IsDigit(s) == s # <<>> /\ \A i \in 1..Len(s) : s[i] \in DigitChunks

RECURSIVE RStripPercent(_)
\* s.rstrip('%')
RStripPercent(s) ==
    IF s # <<>> /\ s[Len(s)] = "%" THEN RStripPercent(SubSeq(s, 1, Len(s) - 1)) ELSE s

\* float(s)
ParseFloat(s) ==
    LET t == Strip(s)
    IN IF Len(t) = 1 /\ t[1] \in NumericChunks THEN Ret(NumVal(t[1]))
       ELSE Raise("ValueError")

\* "total:" in line.lower()
ContainsTotalMarker(line) ==
    \E i \in 1..(Len(line) - 1) : Lower(line[i]) = "total" /\ line[i + 1] = ":"

\* line.startswith("total:")
StartsWithTotalMarker(line) == Len(line) >= 2 /\ line[1] = "total" /\ line[2] = ":"

\* round(num / den * 100, 2), in hundredths
Round2(num, den) == (2 * num * 10000 + den) \div (2 * den)

(***************************************************************************)
(* _parse_coverage_output, _summarize_file_coverage,                       *)
(* _analyze_coverage_quality, _generate_coverage_suggestions.              *)
(***************************************************************************)
\* a variant that takes the first line with the marker
TotalLineIndex_First(lines) ==
    LET marked == {i \in 1..Len(lines) : ContainsTotalMarker(lines[i])}
    IN IF marked = {} THEN 0 ELSE CHOOSE i \in marked : \A j \in marked : i <= j

\* next((line for line in reversed(lines) if "total:" in line.lower()), None):
\* the place of that line, 0 for None
TotalLineIndex(lines) ==
    LET marked == {i \in 1..Len(lines) : ContainsTotalMarker(lines[i])}
    IN IF marked = {} THEN 0 ELSE CHOOSE i \in marked : \A j \in marked : j <= i

\* _parse_coverage_output(coverage_output)
ParseCoverageOutput(coverage_output) ==
    LET lines == SplitLines(coverage_output)
    IN IF TotalLineIndex(lines) = 0
       THEN [total_coverage |-> 0, error |-> "Could not find total coverage line."]
       ELSE LET total_line == lines[TotalLineIndex(lines)]
                tokens == Tokens(total_line)
                total_coverage == IF tokens = <<>> THEN Raise("IndexError")
                                  ELSE ParseFloat(RStripPercent(tokens[Len(tokens)]))
            IN IF total_coverage.raised
               THEN [total_coverage |-> 0,
                     error |-> "Could not parse total coverage percentage."]
               ELSE [total_coverage |-> total_coverage.value,
                     total_line |-> Strip(total_line)]

\* lines 630-655: the record a line contributes, if any
FunctionRecord(line) ==
    IF line = <<>> \/ StartsWithTotalMarker(line) THEN <<>>
    ELSE LET parts == SplitAt(Strip(line), "\t")
         IN IF Len(parts) < 2 THEN <<>>
            ELSE LET full_func_name == parts[1]
                     percentage_str == parts[Len(parts)]
                     last_colon_index == RFindColon(full_func_name)
                 IN IF last_colon_index = 0 THEN <<>>
                    ELSE LET file_path == SubSeq(full_func_name, 1, last_colon_index - 1)
                             file_path_parts == SplitAt(file_path, ":")
                             n == Len(file_path_parts)
                             cleaned == IF n > 1 /\ IsDigit(file_path_parts[n])
                                        THEN JoinWith(SubSeq(file_path_parts, 1, n - 1), ":")
                                        ELSE file_path
                             coverage_pct == ParseFloat(RStripPercent(percentage_str))
                         IN IF coverage_pct.raised THEN <<>>
                            ELSE <<[file |-> cleaned,
                                    coverage |-> coverage_pct.value,
                                    is_covered |-> coverage_pct.value > 0]>>

RECURSIVE FunctionCoverage(_)
\* function_coverage: the records of the lines, in order
FunctionCoverage(lines) ==
    IF lines = <<>> THEN <<>>
    ELSE FunctionRecord(Head(lines)) \o FunctionCoverage(Tail(lines))

\* the place of file among the keys of file_stats, 0 when it is no key
KeyIndex(file_stats, file) ==
    IF \A i \in 1..Len(file_stats) : file_stats[i].file # file THEN 0
    ELSE CHOOSE i \in 1..Len(file_stats) : file_stats[i].file = file

\* lines 659-663: one pass of the loop over function_coverage
Counted(file_stats, func) ==
    LET known == IF KeyIndex(file_stats, func.file) = 0
                 THEN Append(file_stats, [file |-> func.file, total |-> 0, covered |-> 0])
                 ELSE file_stats
        i == KeyIndex(known, func.file)
    IN [known EXCEPT ![i].total = @ + 1,
                     ![i].covered = IF func.is_covered THEN @ + 1 ELSE @]

RECURSIVE FileStats(_, _)
\* file_stats: a dict, its items in insertion order
FileStats(function_coverage, file_stats) ==
    IF function_coverage = <<>> THEN file_stats
    ELSE FileStats(Tail(function_coverage), Counted(file_stats, Head(function_coverage)))

\* a variant that counts every record as covered
FileSummary_AllCovered(data) ==
    [file |-> data.file,
     coverage |-> IF data.total > 0 THEN Round2(data.total, data.total) ELSE 0,
     functions_total |-> data.total,
     functions_covered |-> data.total]

\* one entry of summary_list
FileSummary(data) ==
    [file |-> data.file,
     coverage |-> IF data.total > 0 THEN Round2(data.covered, data.total) ELSE 0,
     functions_total |-> data.total,
     functions_covered |-> data.covered]

RECURSIVE InsertByCoverage(_, _)
\* x goes behind the entries whose coverage is not greater: the sort is stable
InsertByCoverage(sorted, x) ==
    IF sorted = <<>> THEN <<x>>
    ELSE IF Head(sorted).coverage <= x.coverage
    THEN <<Head(sorted)>> \o InsertByCoverage(Tail(sorted), x)
    ELSE <<x>> \o sorted

\* a variant that leaves the entries in insertion order
SortedByCoverage_Unsorted(summary_list) == summary_list

RECURSIVE SortedByCoverage(_)
\* sorted(summary_list, key=lambda x: x["coverage"])
SortedByCoverage(summary_list) ==
    IF summary_list = <<>> THEN <<>>
    ELSE InsertByCoverage(
             SortedByCoverage(SubSeq(summary_list, 1, Len(summary_list) - 1)),
             summary_list[Len(summary_list)])

\* low_coverage_threshold: float = 50.0
LowCoverageThreshold == 5000

\* _summarize_file_coverage(coverage_output, low_coverage_threshold)
SummarizeFileCoverage(coverage_output, low_coverage_threshold) ==
    LET function_coverage == FunctionCoverage(SplitLines(coverage_output))
        file_stats == FileStats(function_coverage, <<>>)
        summary_list ==
            SortedByCoverage([i \in 1..Len(file_stats) |-> FileSummary(file_stats[i])])
    IN [summary_list |-> summary_list,
        low_coverage_files |->
            SelectSeq(summary_list, LAMBDA f : f.coverage < low_coverage_threshold)]

\* a variant whose bounds are exclusive
AnalyzeCoverageQuality_Exclusive(total_coverage) ==
    IF total_coverage > 8000
    THEN [quality_rating |-> "excellent",
          assessment |-> "Great coverage! Your code is well-tested."]
    ELSE IF total_coverage > 7000
    THEN [quality_rating |-> "good",
          assessment |-> "Good coverage. Consider adding a few more tests for critical paths."]
    ELSE IF total_coverage > 5000
    THEN [quality_rating |-> "moderate",
          assessment |-> "Moderate coverage. Adding more tests would improve code reliability."]
    ELSE [quality_rating |-> "low",
          assessment |-> "Low coverage. Significant testing improvements are needed."]

\* _analyze_coverage_quality(total_coverage)
AnalyzeCoverageQuality(total_coverage) ==
    IF total_coverage >= 8000
    THEN [quality_rating |-> "excellent",
          assessment |-> "Great coverage! Your code is well-tested."]
    ELSE IF total_coverage >= 7000
    THEN [quality_rating |-> "good",
          assessment |-> "Good coverage. Consider adding a few more tests for critical paths."]
    ELSE IF total_coverage >= 5000
    THEN [quality_rating |-> "moderate",
          assessment |-> "Moderate coverage. Adding more tests would improve code reliability."]
    ELSE [quality_rating |-> "low",
          assessment |-> "Low coverage. Significant testing improvements are needed."]

\* the entries of the suggestion list
Suggestion(text) == [kind |-> "fixed", text |-> text]

FocusHeader(count) == [kind |-> "header", count |-> count]

FileBullet(file_info) ==
    [kind |-> "bullet", file |-> file_info.file, coverage |-> file_info.coverage]

\* low_coverage_files[:3]
FirstThree(q) == SubSeq(q, 1, IF Len(q) < 3 THEN Len(q) ELSE 3)

\* a variant that lists every low-coverage file
FileBullets_Uncapped(low_coverage_files) ==
    [i \in 1..Len(low_coverage_files) |-> FileBullet(low_coverage_files[i])]

\* lines 719-720
FileBullets(low_coverage_files) ==
    [i \in 1..Len(FirstThree(low_coverage_files)) |->
        FileBullet(FirstThree(low_coverage_files)[i])]

\* _generate_coverage_suggestions(coverage_summary, low_coverage_files)
GenerateCoverageSuggestions(coverage_summary, low_coverage_files) ==
    LET total_coverage == Get(coverage_summary, "total_coverage", 0)
        leading ==
            IF total_coverage < 5000
            THEN Suggestion("Priority: Add basic unit tests for core functionality.")
            ELSE IF total_coverage < 7000
            THEN Suggestion("Add tests for error handling and edge cases.")
            ELSE Suggestion("Focus on covering remaining complex logic and edge cases.")
        focus ==
            IF low_coverage_files # <<>>
            THEN <<FocusHeader(Len(low_coverage_files))>> \o FileBullets(low_coverage_files)
            ELSE <<>>
    IN <<leading>> \o focus
           \o <<Suggestion("Use table-driven tests for comprehensive case coverage."),
                Suggestion("Run tests with the -race flag to detect data races in concurrent code.")>>

\* lines 575-589: the report of a rendered coverage text
CoverageSuccessReport(module_name, coverage_output) ==
    LET coverage_summary == ParseCoverageOutput(coverage_output)
        summarized == SummarizeFileCoverage(coverage_output, LowCoverageThreshold)
    IN JsonDumps(
        [module |-> module_name,
         status |-> "success",
         coverage_summary |-> coverage_summary,
         file_summary |-> summarized.summary_list,
         low_coverage_files |-> summarized.low_coverage_files,
         coverage_analysis |->
             AnalyzeCoverageQuality(Get(coverage_summary, "total_coverage", 0)),
         suggestions |->
             GenerateCoverageSuggestions(coverage_summary, summarized.low_coverage_files)])

(***************************************************************************)
(* analyze_code_coverage and _execute_coverage_analysis, step by step: the *)
(* test command, the rendering command, the removal of coverage.out, the   *)
(* report.                                                                 *)
(***************************************************************************)
\* what subprocess.run(test_cmd, ..., timeout=300) does: it raises, or go
\* test exits, having written coverage.out or not
TestRuns ==
    {[kind |-> "raises", exc |-> e] : e \in {"TimeoutExpired", "FileNotFoundError"}}
        \cup {[kind |-> "exited", returncode |-> rc, wrote |-> w] :
                 rc \in {0, 1}, w \in BOOLEAN}

\* a line of a function: file:line:, function, percentage
FuncLine(file, pct) == file \o <<":", "10", ":", "\t", "Foo", "\t", pct, "%">>

\* a line of the total, behind a prefix
TotalLine(prefix, word, pct) ==
    prefix \o <<word, ":", "\t", "(statements)", "\t", pct, "%">>

\* "pkg/a.go:10:\tFoo\t100.0%\npkg/a.go:20:\tBar\t0.0%\npkg/b.go:5:\tBaz\t0.0%\ntotal:\t(statements)\t33.3%"
ScenarioText ==
    <<FuncLine(<<"pkg/a.go">>, "100.0"), FuncLine(<<"pkg/a.go">>, "0.0"),
      FuncLine(<<"pkg/b.go">>, "0.0"), TotalLine(<<>>, "total", "33.3")>>

\* the text "go tool cover -func" prints
CoverageTexts == {<<>>, << <<"x">> >>, ScenarioText}

\* what subprocess.run(coverage_cmd, ..., timeout=60) does
CoverRuns ==
    {[kind |-> "raises", exc |-> e] : e \in {"TimeoutExpired", "FileNotFoundError"}}
        \cup {[kind |-> "exited", returncode |-> rc, stdout |-> o] :
                 rc \in {0, 1}, o \in CoverageTexts}

CoverageStatusReport(module_name, status) ==
    JsonDumps([module |-> module_name, status |-> status])

\* the handlers of lines 591-602
CoverageRaised(module_name, exc) ==
    IF exc = "TimeoutExpired" THEN CoverageStatusReport(module_name, "timeout")
    ELSE JsonDumps([module |-> module_name, status |-> "error", error_message |-> exc])

\* a variant that keeps the file in the project root
CoverageFile_InRoot(module_name) == <<"coverage.out">>

\* coverage_file = module_dir / "coverage.out"
CoverageFile(module_name) == module_name \o <<"/", "coverage.out">>

\* lines 482-518 up to the call of _execute_coverage_analysis: where the
\* operation stands after its two checks, and what it returns if one fails
AfterChecks(module) ==
    LET failed == PreCheck("Failed to analyze coverage for module", module)
    IN IF failed # {}
       THEN [pc |-> "done", ret |-> Ret(CHOOSE r \in failed : TRUE)]
       ELSE [pc |-> "test", ret |-> None]

\* lines 527-549: go test -coverprofile=coverage.out over the files there are
AfterTest(module_name, test_run, files) ==
    LET written == test_run.kind = "exited" /\ test_run.wrote
        after == IF written THEN files \cup {CoverageFile(module_name)} ELSE files
    IN IF test_run.kind = "raises"
       THEN [files |-> after, pc |-> "done",
             ret |-> Ret(CoverageRaised(module_name, test_run.exc))]
       ELSE IF test_run.returncode # 0
       THEN [files |-> after, pc |-> "done",
             ret |-> Ret(CoverageStatusReport(module_name, "test_failure"))]
       ELSE IF CoverageFile(module_name) \notin after
       THEN [files |-> after, pc |-> "done",
             ret |-> Ret(CoverageStatusReport(module_name, "no_coverage_data"))]
       ELSE [files |-> after, pc |-> "render", ret |-> None]

\* lines 552-559: go tool cover -func=coverage.out; what it raises is
\* handled at lines 591-602, past the removal of coverage.out
AfterRender(module_name, cover_run) ==
    IF cover_run.kind = "raises"
    THEN [pc |-> "done", ret |-> Ret(CoverageRaised(module_name, cover_run.exc))]
    ELSE [pc |-> "unlink", ret |-> None]

\* lines 561-565: coverage_file.unlink(), OSError passed over
AfterUnlink(module_name, files) == files \ {CoverageFile(module_name)}

\* lines 567-589
ReportOf(module_name, cover_run) ==
    IF cover_run.returncode # 0
    THEN Ret(CoverageStatusReport(module_name, "coverage_analysis_failed"))
    ELSE Ret(CoverageSuccessReport(module_name, cover_run.stdout))

\* analyze_code_coverage(module): the two checks, then the analysis starts
analyze_code_coverage ==
    /\ op = "idle"
    /\ \E module \in ModuleArgs :
        /\ arg' = [module |-> module]
        /\ pc' = AfterChecks(module).pc
        /\ ret' = AfterChecks(module).ret
    /\ op' = "analyze_code_coverage"
    /\ env' = [test_run |-> NotRun, cover_run |-> NotRun]
    /\ UNCHANGED <<world, coverage_out>>

CoverageTest ==
    /\ pc = "test"
    /\ \E test_run \in TestRuns :
        /\ env' = [env EXCEPT !.test_run = test_run]
        /\ coverage_out' = AfterTest(arg.module, test_run, coverage_out).files
        /\ pc' = AfterTest(arg.module, test_run, coverage_out).pc
        /\ ret' = AfterTest(arg.module, test_run, coverage_out).ret
    /\ UNCHANGED <<world, op, arg>>

CoverageRender ==
    /\ pc = "render"
    /\ \E cover_run \in CoverRuns :
        /\ env' = [env EXCEPT !.cover_run = cover_run]
        /\ pc' = AfterRender(arg.module, cover_run).pc
        /\ ret' = AfterRender(arg.module, cover_run).ret
    /\ UNCHANGED <<world, coverage_out, op, arg>>

CoverageUnlink ==
    /\ pc = "unlink"
    /\ coverage_out' = AfterUnlink(arg.module, coverage_out)
    /\ pc' = "report"
    /\ UNCHANGED <<world, op, arg, env, ret>>

CoverageReport ==
    /\ pc = "report"
    /\ ret' = ReportOf(arg.module, env.cover_run)
    /\ pc' = "done"
    /\ UNCHANGED <<world, coverage_out, op, arg, env>>

NextCoverage ==
    \/ analyze_code_coverage
    \/ CoverageTest
    \/ CoverageRender
    \/ CoverageUnlink
    \/ CoverageReport
    \/ Return

SpecCoverage == Init /\ [][NextCoverage]_vars

(***************************************************************************)
(* The report of lines 575-589 over the texts the rendering can print.     *)
(***************************************************************************)
\* the lines ahead of the last one: functions of two files at 0% and 100%,
\* a function of a file named total, a function without line number, a line
\* without tab, an empty line, a total line
BodyLines ==
    {FuncLine(f, p) : f \in {<<"pkg/a.go">>, <<"pkg/b.go">>}, p \in {"0.0", "100.0"}}
        \cup {FuncLine(<<"pkg/", "total">>, "100.0"),
              <<"pkg/a.go", ":", "\t", "Foo", "\t", "100.0", "%">>, <<"x">>, <<>>,
              TotalLine(<<>>, "total", "33.3")}

\* the last line: none, or a total line in lower or upper case, behind a
\* space or not, with a percentage that parses or not
FinalLines ==
    {<<>>}
        \cup {<<TotalLine(prefix, word, "33.3")>> :
                 prefix \in {<<>>, <<" ">>}, word \in {"total", "Total"}}
        \cup {<<TotalLine(<<>>, "total", p)>> :
                 p \in {"49.99", "50.0", "69.99", "70.0", "79.99", "80.0", "x"}}

AggregateTexts ==
    {body \o final : body \in UNION {[1..k -> BodyLines] : k \in 0..MaxRecords},
                     final \in FinalLines}

InitAggregate == Init /\ go_mod_dirs = {<<"a">>} /\ root_readable

\* lines 575-589 of _execute_coverage_analysis, for a module and a text
CoverageAggregate ==
    /\ op = "idle"
    /\ \E coverage_output \in AggregateTexts :
        /\ env' = [coverage_output |-> coverage_output]
        /\ ret' = Ret(CoverageSuccessReport(<<"a">>, coverage_output))
    /\ arg' = [module |-> <<"a">>]
    /\ op' = "aggregate"
    /\ UNCHANGED <<world, coverage_out, pc>>

NextAggregate == CoverageAggregate \/ Return

SpecAggregate == InitAggregate /\ [][NextAggregate]_vars

(***************************************************************************)
(* _generate_coverage_suggestions over the summaries and low-coverage      *)
(* lists that can be handed to it.                                         *)
(***************************************************************************)
\* total_coverage of a coverage summary
TotalCoverages == {0, 3330, 4999, 5000, 6999, 7000, 8000, 10000}

\* low_coverage_files: entries below the threshold, ascending by coverage,
\* one per file
LowCoverageLists ==
    UNION {{[i \in 1..n |-> [file |-> <<"pkg/", ToString(i)>>,
                             coverage |-> cov[i],
                             functions_total |-> 4,
                             functions_covered |-> cov[i] \div 2500]] :
               cov \in {c \in [1..n -> {0, 2500}] :
                           \A i, j \in 1..n : i < j => c[i] <= c[j]}} :
           n \in 0..MaxLowFiles}

generate_coverage_suggestions ==
    /\ op = "idle"
    /\ \E total_coverage \in TotalCoverages, low_coverage_files \in LowCoverageLists :
        /\ arg' = [coverage_summary |-> [total_coverage |-> total_coverage],
                   low_coverage_files |-> low_coverage_files]
        /\ ret' = Ret(GenerateCoverageSuggestions([total_coverage |-> total_coverage],
                                                  low_coverage_files))
    /\ op' = "generate_coverage_suggestions"
    /\ env' = None
    /\ UNCHANGED <<world, coverage_out, pc>>

NextSuggestions == generate_coverage_suggestions \/ Return

SpecSuggestions == Init /\ [][NextSuggestions]_vars

(***************************************************************************)
(* Two callers that invoke lint, fix and coverage analysis at the same     *)
(* time, each on a module of its own.  Here op, arg, env, pc and ret hold  *)
(* one value per caller; go_mod_dirs, root_readable and coverage_out are   *)
(* the one file system both work on.                                       *)
(***************************************************************************)
Procs == {"p1", "p2"}

\* what the lint command does here: it raises, or exits without output
ConcurrentLintRuns == {r \in LintRuns : r.kind = "raises" \/ r.stdout = EmptyStr}

InitConcurrent ==
    /\ go_mod_dirs = ModuleUniverse
    /\ root_readable = TRUE
    /\ coverage_out = {}
    /\ op = [p \in Procs |-> "idle"]
    /\ arg = [p \in Procs |-> None]
    /\ env = [p \in Procs |-> None]
    /\ pc = [p \in Procs |-> "idle"]
    /\ ret = [p \in Procs |-> None]

\* the modules the other callers are at work on
Busy(p) == {arg[q].module : q \in {r \in Procs \ {p} : op[r] # "idle"}}

\* a caller invokes one of the three tools on a module no other caller is on
Invoke(p) ==
    /\ op[p] = "idle"
    /\ \E tool \in {"lint", "fix", "analyze_code_coverage"},
          module \in ModuleArgs \ Busy(p), preview \in BOOLEAN :
        /\ (preview => tool = "fix")
        /\ op' = [op EXCEPT ![p] = tool]
        /\ arg' = [arg EXCEPT ![p] = [module |-> module, preview |-> preview]]
        /\ env' = [env EXCEPT ![p] =
                      [had_artifact |-> CoverageFile(module) \in coverage_out,
                       lint_run |-> NotRun, fix_run |-> NotRun,
                       test_run |-> NotRun, cover_run |-> NotRun]]
        /\ pc' = [pc EXCEPT ![p] = IF tool = "analyze_code_coverage"
                                   THEN AfterChecks(module).pc ELSE "run"]
        /\ ret' = [ret EXCEPT ![p] = IF tool = "analyze_code_coverage"
                                     THEN AfterChecks(module).ret ELSE None]
    /\ UNCHANGED <<world, coverage_out>>

ConcurrentLint(p) ==
    /\ op[p] = "lint" /\ pc[p] = "run"
    /\ \E run \in ConcurrentLintRuns :
        /\ env' = [env EXCEPT ![p].lint_run = run]
        /\ ret' = [ret EXCEPT ![p] = Lint(arg[p].module, run)]
    /\ pc' = [pc EXCEPT ![p] = "done"]
    /\ UNCHANGED <<world, coverage_out, op, arg>>

ConcurrentFix(p) ==
    /\ op[p] = "fix" /\ pc[p] = "run"
    /\ \E fix_run \in FixRuns, lint_run \in ConcurrentLintRuns :
        /\ env' = [env EXCEPT ![p].fix_run = fix_run, ![p].lint_run = lint_run]
        /\ ret' = [ret EXCEPT ![p] = Fix(arg[p].module, arg[p].preview, fix_run, lint_run)]
    /\ pc' = [pc EXCEPT ![p] = "done"]
    /\ UNCHANGED <<world, coverage_out, op, arg>>

ConcurrentTest(p) ==
    /\ op[p] = "analyze_code_coverage" /\ pc[p] = "test"
    /\ \E test_run \in TestRuns :
        LET after == AfterTest(arg[p].module, test_run, coverage_out)
        IN /\ env' = [env EXCEPT ![p].test_run = test_run]
           /\ coverage_out' = after.files
           /\ pc' = [pc EXCEPT ![p] = after.pc]
           /\ ret' = [ret EXCEPT ![p] = after.ret]
    /\ UNCHANGED <<world, op, arg>>

ConcurrentRender(p) ==
    /\ op[p] = "analyze_code_coverage" /\ pc[p] = "render"
    /\ \E cover_run \in CoverRuns :
        /\ env' = [env EXCEPT ![p].cover_run = cover_run]
        /\ pc' = [pc EXCEPT ![p] = AfterRender(arg[p].module, cover_run).pc]
        /\ ret' = [ret EXCEPT ![p] = AfterRender(arg[p].module, cover_run).ret]
    /\ UNCHANGED <<world, coverage_out, op, arg>>

ConcurrentUnlink(p) ==
    /\ op[p] = "analyze_code_coverage" /\ pc[p] = "unlink"
    /\ coverage_out' = AfterUnlink(arg[p].module, coverage_out)
    /\ pc' = [pc EXCEPT ![p] = "report"]
    /\ UNCHANGED <<world, op, arg, env, ret>>

ConcurrentReport(p) ==
    /\ op[p] = "analyze_code_coverage" /\ pc[p] = "report"
    /\ ret' = [ret EXCEPT ![p] = ReportOf(arg[p].module, env[p].cover_run)]
    /\ pc' = [pc EXCEPT ![p] = "done"]
    /\ UNCHANGED <<world, coverage_out, op, arg, env>>

\* the tool returns to its caller
ConcurrentReturn(p) ==
    /\ pc[p] = "done"
    /\ op' = [op EXCEPT ![p] = "idle"]
    /\ arg' = [arg EXCEPT ![p] = None]
    /\ env' = [env EXCEPT ![p] = None]
    /\ pc' = [pc EXCEPT ![p] = "idle"]
    /\ ret' = [ret EXCEPT ![p] = None]
    /\ UNCHANGED <<world, coverage_out>>

NextConcurrent ==
    \E p \in Procs :
        \/ Invoke(p)
        \/ ConcurrentLint(p)
        \/ ConcurrentFix(p)
        \/ ConcurrentTest(p)
        \/ ConcurrentRender(p)
        \/ ConcurrentUnlink(p)
        \/ ConcurrentReport(p)
        \/ ConcurrentReturn(p)

SpecConcurrent == InitConcurrent /\ [][NextConcurrent]_vars

(***************************************************************************)
(* get_module_info: get_info_about_module, by the sections of its text.    *)
(***************************************************************************)
\* what reading the module directory does: go.mod and the README each read
\* or raise, the directory lists or raises
InfoReads ==
    [go_mod : {"read", "raises"}, readme : {"absent", "read", "raises"},
     listing : {"listed", "raises"}]

\* get_info_about_module(module): each read has a handler of its own
GetInfoAboutModule(module, reads) ==
    IF ~ModuleDirExists(module)
    THEN LET available == GetAvailableModules
         IN IF available.raised
            THEN Ret(FailedReport("Failed to get info for module", module, available.exc))
            ELSE Ret(JsonDumps([error |-> [msg |-> "Module directory not found",
                                           module |-> module],
                                available_modules |-> available.value]))
    ELSE LET go_mod_info == IF ~GoModExists(module) THEN <<>>
                            ELSE IF reads.go_mod = "raises" THEN <<"error">>
                            ELSE <<"module_name", "go_version", "dependencies_count">>
             structure == IF reads.listing = "raises" THEN <<"error">>
                          ELSE <<"directories", "files_count", "test_files_count">>
             readme == IF reads.readme = "absent" THEN "No README file found"
                       ELSE IF reads.readme = "raises" THEN "Error reading README"
                       ELSE "README"
         IN Ret([kind |-> "info", module |-> module, go_mod_info |-> go_mod_info,
                 structure |-> structure, readme |-> readme])

get_info_about_module ==
    /\ op = "idle"
    /\ \E module \in ModuleArgs, reads \in InfoReads :
        /\ arg' = [module |-> module]
        /\ env' = [reads |-> IF ModuleDirExists(module) THEN reads ELSE NotRun]
        /\ ret' = GetInfoAboutModule(module, reads)
    /\ op' = "get_info_about_module"
    /\ UNCHANGED <<world, coverage_out, pc>>

(***************************************************************************)
(* Every public operation.                                                 *)
(***************************************************************************)
Next ==
    \/ find_modules
    \/ find_staged_modules
    \/ get_module_from_pkg
    \/ get_info_about_module
    \/ lint
    \/ fix
    \/ analyze_code_coverage
    \/ CoverageTest
    \/ CoverageRender
    \/ CoverageUnlink
    \/ CoverageReport
    \/ Return

Spec == Init /\ [][Next]_vars

(***************************************************************************)
(* Properties of find_staged_modules.                                      *)
(***************************************************************************)
\* git listed the staged paths and the registry could be read
GitListed ==
    /\ op = "find_staged_modules"
    /\ env.git.kind = "exited"
    /\ env.git.returncode = 0
    /\ root_readable

\* module root m is an ancestor-or-self of path p
Inside(p, m) == IsPrefix(Split(m), Split(p))

\* d(p): the module with the most path segments among those holding p, the
\* lexicographically first on equal depth
Deepest(p, mods) ==
    LET holding == {m \in mods : Inside(p, m)}
    IN CHOOSE m \in holding : \A x \in holding \ {m} :
           \/ Len(Split(x)) < Len(Split(m))
           \/ Len(Split(x)) = Len(Split(m)) /\ StrLess(m, x)

ExpectedStaged(files, mods) ==
    {Deepest(files[i], mods) :
        i \in {j \in 1..Len(files) : \E m \in mods : Inside(files[j], m)}}

\* C1: for every list of changed paths and every registry the result is
\* exactly the set of the deepest modules holding a changed path.
C1_StagedModulesExact ==
    GitListed =>
        /\ ~ret.raised
        /\ SeqToSet(ret.value) = ExpectedStaged(env.git.stdout, go_mod_dirs)

\* The mapping of C1 is the code's on every list whose entries all resolve.
StagedExactWhenAllResolve ==
    (GitListed /\ LoopLink \notin SeqToSet(env.git.stdout)) =>
        /\ ~ret.raised
        /\ ret.value = Sorted(ExpectedStaged(env.git.stdout, go_mod_dirs))

StagedNestedReached ==
    /\ GitListed
    /\ LoopLink \notin SeqToSet(env.git.stdout)
    /\ go_mod_dirs = ModuleUniverse
    /\ ret.value = <<<<"a", "/", "a">>, <<"g", "/", "a">>>>

Without(q, i) == SubSeq(q, 1, i - 1) \o SubSeq(q, i + 1, Len(q))

\* C2: an entry that cannot be resolved is skipped: the result for a list
\* holding one such entry is the result for the list without it.
C2_BadEntrySkipped ==
    GitListed =>
        \A i \in 1..Len(env.git.stdout) :
            (/\ env.git.stdout[i] = LoopLink
             /\ \A j \in 1..Len(env.git.stdout) : j # i => env.git.stdout[j] # LoopLink)
            => ret = FindStagedModules([env.git EXCEPT !.stdout = Without(@, i)])

(***************************************************************************)
(* Properties of get_module_from_pkg.                                      *)
(***************************************************************************)
\* a package path: segments joined by "/", none of them empty
PackagePath(pkg) == \A i \in 1..Len(Split(pkg)) : Split(pkg)[i] # <<>>

\* the call was given a package path and the registry could be read
PkgResolved ==
    /\ op = "get_module_from_pkg"
    /\ root_readable
    /\ PackagePath(arg.pkg)

\* pkg without its leading organizational prefix
StripPrefix(pkg) ==
    IF StartsWith(pkg, OrgPrefix) THEN SubSeq(pkg, Len(OrgPrefix) + 1, Len(pkg)) ELSE pkg

First(q, P(_)) ==
    LET hits == {i \in 1..Len(q) : P(q[i])}
    IN IF hits = {} THEN {} ELSE {q[CHOOSE i \in hits : \A j \in hits : i <= j]}

\* stage 2 as stated: joined prefixes of length 1, 2, ... of the stripped
\* remainder, the first that is a module id
StatedProgressive(pkg, mods) ==
    IF ~StartsWith(pkg, OrgPrefix) THEN {}
    ELSE LET parts == Split(StripPrefix(pkg))
         IN First([i \in 1..Len(parts) |-> Join(SubSeq(parts, 1, i))],
                  LAMBDA c : c \in mods)

\* stage 3 as stated: the first module in registry order under which pkg,
\* with or without the prefix, exists
StatedFilesystem(pkg, registry, tree) ==
    First(registry, LAMBDA m : \/ ExistsUnder(m, pkg, tree)
                               \/ ExistsUnder(m, StripPrefix(pkg), tree))

StatedResolution(pkg, registry, tree) ==
    IF pkg \in SeqToSet(registry) THEN {pkg}
    ELSE IF StatedProgressive(pkg, SeqToSet(registry)) # {}
    THEN StatedProgressive(pkg, SeqToSet(registry))
    ELSE StatedFilesystem(pkg, registry, tree)

\* C3: the result is that of the earliest succeeding stage: exact match,
\* then progressive prefixes of the stripped remainder, then the first
\* module in registry order holding the package.
C3_StageOrder ==
    PkgResolved =>
        LET stated == StatedResolution(arg.pkg, Sorted(go_mod_dirs), env.tree)
        IN /\ ~ret.raised
           /\ stated # {} => ret.value = Text(CHOOSE m \in stated : TRUE)
           /\ stated = {} => ret.value.kind = "json"

\* The stage order of C3 is the code's for every package in which the
\* organizational prefix occurs at most once, at its start.
StageOrderWhenPrefixOnlyLeads ==
    (PkgResolved /\ Replace(StripPrefix(arg.pkg), OrgPrefix) = StripPrefix(arg.pkg)) =>
        LET stated == StatedResolution(arg.pkg, Sorted(go_mod_dirs), env.tree)
        IN /\ stated # {} => ret.value = Text(CHOOSE m \in stated : TRUE)
           /\ stated = {} => ret.value.kind = "json"

\* a package path of two or more segments in which the
\* organizational prefix does not occur
UnrelatedPrefix(pkg) ==
    /\ Len(Split(pkg)) >= 2
    /\ Replace(pkg, OrgPrefix) = pkg

NoStageMatches ==
    /\ PkgResolved
    /\ UnrelatedPrefix(arg.pkg)
    /\ StatedResolution(arg.pkg, Sorted(go_mod_dirs), env.tree) = {}

\* C4: a package under an unrelated prefix that no stage matches gets a
\* NotFound report naming the package and carrying every known module.
C4_NotFoundCarriesModules ==
    NoStageMatches =>
        /\ ~ret.raised
        /\ ret.value.kind = "json"
        /\ ret.value.value.error.msg = "Package not found in any module"
        /\ ret.value.value.error.pkg = arg.pkg
        /\ SeqToSet(ret.value.value.available_modules) = go_mod_dirs
        /\ Len(ret.value.value.available_modules) = Cardinality(go_mod_dirs)

C4_NotFoundReached ==
    /\ NoStageMatches
    /\ Cardinality(go_mod_dirs) >= 2
    /\ ret.value.kind = "json"
    /\ Len(ret.value.value.available_modules) >= 2

(***************************************************************************)
(* Properties of lint.                                                     *)
(***************************************************************************)
\* the dict of the JSON report the operation returned
Report == ret.value.value

StatusOf(report) == Get(report, "status", None)

\* golangci-lint was started and exited with a non-zero code
LintExitedNonZero ==
    /\ op = "lint"
    /\ env.lint_run.kind = "exited"
    /\ env.lint_run.returncode # 0

\* stdout is the tool's structured format: an object holding an issue list
Structured(stdout) ==
    /\ stdout.kind = "json"
    /\ stdout.value.type = "object"
    /\ "Issues" \in DOMAIN stdout.value.dict
    /\ "Issues" \notin stdout.value.nulls

\* the tool did not complete: it was not started, did not exit, or exited
\* non-zero leaving no output
ExecutionError(run) ==
    \/ run.kind # "exited"
    \/ run.returncode # 0 /\ ~NonEmpty(run.stdout)

\* C5: a lint report has status success iff its issue sequence is empty and
\* no execution error occurred; error and timeout reports carry no issues.
C5_SuccessIffNoIssues ==
    op = "lint" =>
        /\ ~ret.raised
        /\ StatusOf(Report) = "success" <=>
               /\ "issues" \in DOMAIN Report
               /\ Report.issues = <<>>
               /\ ~ExecutionError(env.lint_run)
        /\ StatusOf(Report) \in {"error", "timeout"} => "issues" \notin DOMAIN Report

C5_SuccessAfterNonZeroExit ==
    /\ LintExitedNonZero
    /\ Structured(env.lint_run.stdout)
    /\ StatusOf(Report) = "success"
    /\ Report.issues = <<>>

\* C6: a non-zero exit with output that is not the structured format gives
\* status completed_with_issues with the raw output kept verbatim.
C6_RawFallback ==
    (LintExitedNonZero /\ NonEmpty(env.lint_run.stdout)
                       /\ ~Structured(env.lint_run.stdout)) =>
        /\ ~ret.raised
        /\ StatusOf(Report) = "completed_with_issues"
        /\ "raw_output" \in DOMAIN Report
        /\ Report.raw_output = env.lint_run.stdout

\* The fallback of C6 is the code's for output that is no JSON at all.
RawFallbackWhenNotJson ==
    (LintExitedNonZero /\ NonEmpty(env.lint_run.stdout)
                       /\ env.lint_run.stdout.kind # "json") =>
        /\ StatusOf(Report) = "completed_with_issues"
        /\ Report.raw_output = env.lint_run.stdout

RECURSIVE SumOf(_)
SumOf(f) ==
    IF DOMAIN f = {} THEN 0
    ELSE LET k == CHOOSE x \in DOMAIN f : TRUE
         IN f[k] + SumOf([x \in DOMAIN f \ {k} |-> f[x]])

\* breakdown holds, for every value of field, the number of reported issues
\* with that value, and nothing else
ExactCounts(breakdown, issues, field) ==
    /\ DOMAIN breakdown = {issues[i][field] : i \in 1..Len(issues)}
    /\ \A v \in DOMAIN breakdown :
           breakdown[v] = Cardinality({i \in 1..Len(issues) : issues[i][field] = v})
    /\ SumOf(breakdown) = Len(issues)

\* C7: the reported issues are the received ones, one for one and in order,
\* absent severity or linter reading "unknown"; total_issues is their number
\* and each breakdown counts them exactly.
C7_IssuesInOrderWithCounts ==
    (LintExitedNonZero /\ Structured(env.lint_run.stdout)) =>
        LET raw == env.lint_run.stdout.value.dict.Issues
        IN /\ ~ret.raised
           /\ Len(Report.issues) = Len(raw)
           /\ \A i \in 1..Len(raw) :
                  /\ Report.issues[i].severity =
                         IF "Severity" \in DOMAIN raw[i] THEN raw[i].Severity ELSE "unknown"
                  /\ Report.issues[i].linter =
                         IF "FromLinter" \in DOMAIN raw[i] THEN raw[i].FromLinter ELSE "unknown"
                  /\ Report.issues[i].message = raw[i].Text
           /\ Report.summary.total_issues = Len(raw)
           /\ ExactCounts(Report.summary.severity_breakdown, Report.issues, "severity")
           /\ ExactCounts(Report.summary.linter_breakdown, Report.issues, "linter")

C7_TwoIssuesReached ==
    /\ LintExitedNonZero
    /\ Structured(env.lint_run.stdout)
    /\ Len(Report.issues) = MaxIssues
    /\ Report.issues[1].severity = "unknown"
    /\ Report.issues[2].severity = "error"
    /\ Report.issues[1].linter # Report.issues[2].linter
    /\ Report.summary.total_issues = MaxIssues

(***************************************************************************)
(* Properties of the time budgets, of coverage.out and of the results.     *)
(***************************************************************************)
\* the operation has come to its return statement
Returned == op # "idle" /\ pc \in {"idle", "done"}

\* subprocess.run raised TimeoutExpired for this command
TimedOut(run) == run.kind = "raises" /\ run.exc = "TimeoutExpired"

\* a command started by lint, fix or coverage analysis exceeded its budget
SubprocessTimedOut ==
    \/ op = "lint" /\ TimedOut(env.lint_run)
    \/ op = "fix" /\ (TimedOut(env.fix_run) \/ TimedOut(env.lint_run))
    \/ op = "analyze_code_coverage" /\ (TimedOut(env.test_run) \/ TimedOut(env.cover_run))

\* C8: whenever a subprocess started by lint, fix (preview or apply) or
\* coverage analysis exceeds its time budget, the report returned has the
\* status timeout, and no other status or a status-less report.
C8_TimeoutStatus ==
    (Returned /\ SubprocessTimedOut) => StatusOf(Report) = "timeout"

\* the part that holds: the command an operation runs first
FirstCommandTimeoutStatus ==
    (/\ Returned
     /\ \/ op = "lint" /\ TimedOut(env.lint_run)
        \/ op = "fix" /\ TimedOut(env.fix_run)
        \/ op = "analyze_code_coverage" /\ SubprocessTimedOut)
        => StatusOf(Report) = "timeout"

\* C9: once go test has produced coverage.out and the rendering command has
\* been started, coverage.out no longer exists when the operation returns,
\* whatever the rendering outcome is.
C9_ArtifactRemoved ==
    (/\ op = "analyze_code_coverage"
     /\ pc = "done"
     /\ env.test_run.kind = "exited"
     /\ env.test_run.wrote
     /\ env.cover_run.kind # "not_run")
        => CoverageFile(arg.module) \notin coverage_out

\* the part that holds: the rendering command came to an exit
ArtifactRemovedWhenRenderExits ==
    (/\ op = "analyze_code_coverage"
     /\ pc = "done"
     /\ env.cover_run.kind = "exited")
        => CoverageFile(arg.module) \notin coverage_out

\* C10: every public operation returns a result for every input and every
\* failure of a collaborator; no exception escapes to the caller.
C10_NoExceptionEscapes == Returned => ~ret.raised

\* the part that holds: every operation but find_modules
NoExceptionEscapesButFindModules ==
    (Returned /\ op # "find_modules") => ~ret.raised

(***************************************************************************)
(* Properties of the coverage report.                                      *)
(***************************************************************************)
\* the report of a rendered text has been built
Aggregated == op = "aggregate"

\* the function-level records read from the text
ParsedRecords == FunctionCoverage(SplitLines(env.coverage_output))

RecordsOf(file) == SelectSeq(ParsedRecords, LAMBDA r : r.file = file)

\* c is covered / total * 100 rounded to two decimals, in hundredths
NearestHundredth(c, covered, total) ==
    LET d == c * total - covered * 10000
    IN 2 * (IF d < 0 THEN 0 - d ELSE d) <= total

\* C11: every entry of the per-file summary has functions_total >= 1 equal
\* to the number of parsed records of its file, functions_covered equal to
\* the number of those with percentage > 0 (so 0 <= covered <= total),
\* coverage = round(covered / total * 100, 2) within 0..100, and every file
\* of a parsed record has exactly one entry.
C11_FileSummaryCounts ==
    Aggregated =>
        /\ \A i \in 1..Len(Report.file_summary) :
            LET e == Report.file_summary[i]
            IN /\ e.functions_total >= 1
               /\ e.functions_total = Len(RecordsOf(e.file))
               /\ e.functions_covered =
                      Len(SelectSeq(RecordsOf(e.file), LAMBDA r : r.coverage > 0))
               /\ 0 <= e.functions_covered /\ e.functions_covered <= e.functions_total
               /\ NearestHundredth(e.coverage, e.functions_covered, e.functions_total)
               /\ 0 <= e.coverage /\ e.coverage <= 10000
        /\ \A k \in 1..Len(ParsedRecords) :
            Cardinality({i \in 1..Len(Report.file_summary) :
                            Report.file_summary[i].file = ParsedRecords[k].file}) = 1

\* a file with three records, two of them covered, next to another file
C11_PartlyCoveredFile ==
    /\ Aggregated
    /\ Len(Report.file_summary) >= 2
    /\ \E i \in 1..Len(Report.file_summary) :
        /\ Report.file_summary[i].functions_total = 2
        /\ Report.file_summary[i].functions_covered = 1

\* C12: the per-file summary is ascending by coverage and the low-coverage
\* subset is exactly its entries strictly below 50.0, in the same order; in
\* the scenario of a.go at 100% and 0% and b.go at 0% the order is
\* [pkg/b.go, pkg/a.go], pkg/a.go is at 50.0 and only pkg/b.go is low.
C12_AscendingAndLowSubset ==
    Aggregated =>
        LET fs == Report.file_summary
            low == Report.low_coverage_files
            below == {i \in 1..Len(fs) : fs[i].coverage < 5000}
        IN /\ \A i, j \in 1..Len(fs) : i < j => fs[i].coverage <= fs[j].coverage
           /\ low = SubSeq(fs, 1, Cardinality(below))
           /\ \A i \in 1..Len(low) : low[i].coverage < 5000
           /\ env.coverage_output = ScenarioText =>
                  /\ [i \in 1..Len(fs) |-> fs[i].file] = << <<"pkg/b.go">>, <<"pkg/a.go">> >>
                  /\ fs[2].coverage = 5000
                  /\ [i \in 1..Len(low) |-> low[i].file] = << <<"pkg/b.go">> >>

\* the scenario has been aggregated
C12_ScenarioReached ==
    /\ Aggregated
    /\ env.coverage_output = ScenarioText
    /\ Len(Report.file_summary) = 2

\* the sentence that goes with a rating
AssessmentOf(rating) ==
    CASE rating = "excellent" -> "Great coverage! Your code is well-tested."
      [] rating = "good" ->
            "Good coverage. Consider adding a few more tests for critical paths."
      [] rating = "moderate" ->
            "Moderate coverage. Adding more tests would improve code reliability."
      [] rating = "low" -> "Low coverage. Significant testing improvements are needed."

\* C13: the rating is a function of the overall coverage with inclusive
\* lower bounds: >= 80 excellent, 70..80 good, 50..70 moderate, < 50 low
\* (80.0 excellent, 79.99 good, 70.0 good, 69.99 moderate, 50.0 moderate,
\* 49.99 low), each rating with its one assessment sentence.
C13_QualityRating ==
    Aggregated =>
        LET t == Report.coverage_summary.total_coverage
            a == Report.coverage_analysis
        IN /\ t >= 8000 => a.quality_rating = "excellent"
           /\ (7000 <= t /\ t < 8000) => a.quality_rating = "good"
           /\ (5000 <= t /\ t < 7000) => a.quality_rating = "moderate"
           /\ t < 5000 => a.quality_rating = "low"
           /\ a.assessment = AssessmentOf(a.quality_rating)

\* an overall coverage of exactly 70.0 has been rated
C13_BoundaryReached ==
    /\ Aggregated
    /\ Report.coverage_summary.total_coverage = 7000
    /\ Report.coverage_analysis.quality_rating = "good"

\* the lines of the text the report was built from
ReportedLines == SplitLines(env.coverage_output)

\* the line holds "total:" in some letter case
HasTotalMarker(line) ==
    \E i \in 1..(Len(line) - 1) : line[i] \in {"total", "Total"} /\ line[i + 1] = ":"

\* the place of the last line with the marker, 0 when there is none
LastTotalLine ==
    LET marked == {i \in 1..Len(ReportedLines) : HasTotalMarker(ReportedLines[i])}
    IN IF marked = {} THEN 0 ELSE CHOOSE i \in marked : \A j \in marked : j <= i

\* what stands behind the last whitespace of the line
TrailingToken(line) ==
    LET r == RStrip(line)
        gaps == {i \in 1..Len(r) : r[i] \in Whitespace}
        last == IF gaps = {} THEN 0 ELSE CHOOSE i \in gaps : \A j \in gaps : j <= i
    IN SubSeq(r, last + 1, Len(r))

\* a number, followed by percent signs only
IsPercentage(token) ==
    /\ token # <<>>
    /\ token[1] \in NumericChunks
    /\ \A i \in 2..Len(token) : token[i] = "%"

\* C16: the overall coverage is the trailing percentage of the last line
\* that contains "total:" in any letter case, so an earlier line whose file
\* path contains it does not override a trailing summary line; without such
\* a line, or when its percentage does not parse, the overall coverage is
\* 0.0 with an error note, and a report is returned.
C16_OverallFromLastTotalLine ==
    Aggregated =>
        /\ ~ret.raised
        /\ LET summary == Report.coverage_summary
               token == TrailingToken(ReportedLines[LastTotalLine])
           IN IF LastTotalLine # 0 /\ IsPercentage(token)
              THEN /\ summary.total_coverage = NumVal(token[1])
                   /\ "error" \notin DOMAIN summary
              ELSE /\ summary.total_coverage = 0
                   /\ "error" \in DOMAIN summary

\* a function of the file pkg/total at 100.0% ahead of the total line at 33.3%
C16_PathWithMarkerAhead ==
    /\ Aggregated
    /\ LastTotalLine >= 2
    /\ ReportedLines[1] = FuncLine(<<"pkg/", "total">>, "100.0")
    /\ ReportedLines[LastTotalLine] = TotalLine(<<>>, "total", "33.3")
    /\ Report.coverage_summary.total_coverage = 3330

\* C17: the parser of the overall coverage and the per-file summarizer agree
\* on the total line: the line the overall coverage is taken from is never
\* counted as a function-level record, whatever its letter case or leading
\* characters.
C17_TotalLineIsNoRecord ==
    (Aggregated /\ LastTotalLine # 0) =>
        FunctionRecord(ReportedLines[LastTotalLine]) = <<>>

\* the part that holds: a total line that starts with "total:" in lower case
LowerCaseTotalLineIsNoRecord ==
    (/\ Aggregated
     /\ LastTotalLine # 0
     /\ SubSeq(ReportedLines[LastTotalLine], 1, 2) = <<"total", ":">>)
        => FunctionRecord(ReportedLines[LastTotalLine]) = <<>>

(***************************************************************************)
(* Properties of the suggestions.                                          *)
(***************************************************************************)
Suggested == op = "generate_coverage_suggestions"

\* the leading suggestion of a coverage tier
LeadingOf(total_coverage) ==
    IF total_coverage < 5000
    THEN Suggestion("Priority: Add basic unit tests for core functionality.")
    ELSE IF total_coverage < 7000
    THEN Suggestion("Add tests for error handling and edge cases.")
    ELSE Suggestion("Focus on covering remaining complex logic and edge cases.")

\* one bullet per file, for the three lowest-covered files at most
BulletsOf(low) ==
    [i \in 1..(IF Len(low) > 3 THEN 3 ELSE Len(low)) |->
        [kind |-> "bullet", file |-> low[i].file, coverage |-> low[i].coverage]]

GeneralSuggestions ==
    <<Suggestion("Use table-driven tests for comprehensive case coverage."),
      Suggestion("Run tests with the -race flag to detect data races in concurrent code.")>>

\* C15: the suggestion sequence consists of, in this order: one leading
\* suggestion chosen by the coverage tier; then, only if the low-coverage
\* subset is non-empty, one bullet per low-coverage file for at most the
\* three lowest-covered files; then the two fixed general suggestions.
C15_SuggestionSequence ==
    Suggested =>
        ret.value = <<LeadingOf(arg.coverage_summary.total_coverage)>>
                        \o BulletsOf(arg.low_coverage_files)
                        \o GeneralSuggestions

\* C15 as amended: as C15, with one entry that names the number of
\* low-coverage files (of all of them, not of the three listed) ahead of the
\* bullets whenever the low-coverage subset is non-empty.
C15_SuggestionSequenceWithHeader ==
    Suggested =>
        ret.value = <<LeadingOf(arg.coverage_summary.total_coverage)>>
                        \o (IF arg.low_coverage_files # <<>>
                            THEN <<[kind |-> "header",
                                    count |-> Len(arg.low_coverage_files)]>>
                            ELSE <<>>)
                        \o BulletsOf(arg.low_coverage_files)
                        \o GeneralSuggestions

\* four low-coverage files, three of them listed
C15_CapReached ==
    /\ Suggested
    /\ Len(arg.low_coverage_files) = 4
    /\ Len(ret.value) = 7

(***************************************************************************)
(* Properties of the fix report.                                           *)
(***************************************************************************)
\* fix in apply mode ran its command and linted the module again
FixCompleted ==
    /\ op = "fix"
    /\ ~arg.preview
    /\ env.fix_run.kind = "exited"
    /\ env.lint_run.kind # "not_run"
    /\ StatusOf(Report) = "fix_completed"

\* the report of the follow-up lint
FollowUpLint == JsonLoads(ExecuteGolangciLint(arg.module, env.lint_run).value).value

\* C18: in apply mode the remaining_issues_summary of the fix report states
\* "No issues found" only if the follow-up lint completed and found zero
\* issues, not if it ended in error, timeout or unparseable output.
C18_NoIssuesOnlyAfterCleanLint ==
    (FixCompleted /\ "message" \in DOMAIN Report.remaining_issues_summary) =>
        /\ env.lint_run.kind = "exited"
        /\ StatusOf(FollowUpLint) = "success"

\* the part that holds: a follow-up lint that produced a structured report
\* is summarised by that report's summary
SummaryOfStructuredLint ==
    (FixCompleted /\ "summary" \in DOMAIN FollowUpLint) =>
        Report.remaining_issues_summary = FollowUpLint.summary

(***************************************************************************)
(* Properties of concurrent invocations.                                   *)
(***************************************************************************)
\* what coverage analysis returns when nothing else runs: its steps one
\* after the other, over the coverage.out of its own module
AloneCoverage(module, had_artifact, test_run, cover_run) ==
    LET files == IF had_artifact THEN {CoverageFile(module)} ELSE {}
    IN IF AfterChecks(module).pc = "done" THEN AfterChecks(module).ret
       ELSE IF AfterTest(module, test_run, files).pc = "done"
       THEN AfterTest(module, test_run, files).ret
       ELSE IF AfterRender(module, cover_run).pc = "done"
       THEN AfterRender(module, cover_run).ret
       ELSE ReportOf(module, cover_run)

\* what the invocation of caller p returns when it runs alone
Alone(p) ==
    IF op[p] = "lint" THEN Lint(arg[p].module, env[p].lint_run)
    ELSE IF op[p] = "fix"
    THEN Fix(arg[p].module, arg[p].preview, env[p].fix_run, env[p].lint_run)
    ELSE AloneCoverage(arg[p].module, env[p].had_artifact,
                       env[p].test_run, env[p].cover_run)

\* C14: concurrent invocations of lint, fix or coverage analysis on
\* different modules do not interfere: under every interleaving each
\* invocation returns the report it would return if it ran alone.
C14_ReportAsIfAlone ==
    \A p \in Procs : pc[p] = "done" => ret[p] = Alone(p)

\* two coverage analyses at once, on a module and on the module nested in
\* it: one has returned its report while the other holds its coverage.out
C14_OverlappingCoverage ==
    \E p, q \in Procs :
        /\ p # q
        /\ op[p] = "analyze_code_coverage" /\ op[q] = "analyze_code_coverage"
        /\ arg[p].module = <<"a">> /\ arg[q].module = <<"a", "/", "a">>
        /\ pc[p] = "done" /\ ret[p].value.value.status = "success"
        /\ pc[q] = "unlink"
        /\ CoverageFile(arg[q].module) \in coverage_out

====
